---- MODULE Spec2Model ----
(***************************************************************************)
(* Model of yt_dlp/extractor/crunchyroll.py: the resolution of one         *)
(* requested video (CrunchyrollBetaIE._real_extract): selection of the     *)
(* audio-language versions, the fetch of each selected version and the     *)
(* merge of the extracted versions (Spec); _extract_formats (SpecFormats); *)
(* the series playlist of CrunchyrollBetaShowIE (SpecShow); and the api    *)
(* credentials kept on the class by _update_query and _update_auth, used   *)
(* by one caller after the other (SpecBaseApi) and by two at once          *)
(* (SpecAuth).                                                             *)
(***************************************************************************)
EXTENDS Integers, Sequences, FiniteSets, TLC

VARIABLES
    internal_id,       \* id taken from the url
    versions,          \* '<type>_metadata.versions' of the default response
    requested_langs,   \* the 'language' extractor argument (list of expressions)
    pc,                \* position inside _real_extract
    default_response,  \* response fetched for internal_id
    lang_table,        \* list of (version id, language) rows
    requested_ids,     \* ids kept by keep_table_matches
    idx,               \* position of the fetch loop in requested_ids
    results,           \* ordered dict vid -> response built by the loop
    screen,            \* ids a 'could not be found' message was printed for
    fetch_log,         \* ids passed to get_response_by_id, in call order
    outcome,           \* what _real_extract ends with
    stream_response,   \* _extract_formats: the stream descriptors, in manifest order
    format_arg,        \* the 'format' extractor argument
    hardsub_arg,       \* the 'hardsub' extractor argument
    fpc,               \* position inside _extract_formats
    available_formats, \* ordered dict hardsub_lang -> (stream_type, format_id, hardsub_lang, url)
    full_format_langs, \* hardsub languages whose HLS playlist is resolved
    fidx,              \* position of the loop over available_formats.values()
    formats,           \* the formats list
    manifest_fetches,  \* manifests downloaded, in call order
    hint_shown,        \* the hint about the hardsub argument was printed
    warnings,          \* stream types reported as unknown
    series,            \* CrunchyrollBetaShowIE: the seasons of the series, each a list of episodes
    show_langs,        \* the 'language' extractor argument of the series extraction
    spc,               \* position inside CrunchyrollBetaShowIE._real_extract and its playlist
    season_idx,        \* position of episode_responses() in the seasons
    episode_table,     \* list of (eid, audio langs) rows
    matching_langs,    \* requested_lang_selector.get_list_matches(episode_langs)
    matching_default,  \* whether the default language is among matching_langs
    requests,          \* api requests made, in call order
    epos,              \* position of entries() in episode_table
    entries,           \* the url results the consumer has received
    pulls,             \* number of times the consumer asked entries() for an element
    QUERY,             \* CrunchyrollBaseIE._QUERY: the languages it has a key for
    BASIC_AUTH,        \* whether CrunchyrollBaseIE._BASIC_AUTH is set
    AUTH_HEADERS,      \* the token in CrunchyrollBaseIE._AUTH_HEADERS, NoToken for None
    AUTH_REFRESH,      \* CrunchyrollBaseIE._AUTH_REFRESH: expiry time and the token it was computed for
    now,               \* time_seconds()
    token_requests,    \* number of requests to /auth/v1/token
    cpc,               \* per caller: position inside _call_base_api
    clang,             \* per caller: the lang argument of the call
    auth_response,     \* per caller: the token response it holds
    error,             \* per caller: the exception its call ended with
    calls_started      \* number of _call_base_api calls started

rvars == <<internal_id, versions, requested_langs, pc, default_response,
           lang_table, requested_ids, idx, results, screen, fetch_log, outcome>>

fvars == <<stream_response, format_arg, hardsub_arg, fpc, available_formats,
           full_format_langs, fidx, formats, manifest_fetches, hint_shown, warnings>>

svars == <<series, show_langs, spc, season_idx, episode_table, matching_langs,
           matching_default, requests, epos, entries, pulls>>

avars == <<QUERY, BASIC_AUTH, AUTH_HEADERS, AUTH_REFRESH, now, token_requests,
           cpc, clang, auth_response, error, calls_started>>

\* the state of the series extraction and of the api credentials
ovars == <<svars, avars>>

vars == <<rvars, fvars, svars, avars>>

-----------------------------------------------------------------------------
(* Bounds of the model *)

\* number of entries of the 'versions' list of the default response
MaxVersions == 2

\* number of formats _extract_formats yields for one version
FormatsPerVersion == 2

\* number of stream descriptors of a stream response
MaxStreams == 2

\* number of renditions a resolved manifest lists
RenditionsPerManifest == 2

\* number of seasons of a series
MaxSeasons == 2

\* number of _call_base_api calls
MaxCalls == 3

\* last value of the clock
MaxClock == 2

-----------------------------------------------------------------------------
(* Values *)

None == "None"

DEFAULT_LANG == "@@default"

Ids == {"v0", "v1", "v2"}

Titles == {"t1", "t2"}

\* str.casefold().strip() on the language codes the model uses
casefold(v) ==
    CASE v = "ja-JP" -> "ja-jp"
      [] v = "en-US" -> "en-us"
      [] v = "en-GB" -> "en-gb"
      [] OTHER -> v

\* the language fields a version descriptor may carry
VersionData ==
    { [audio_locales |-> <<>>, audio_locale |-> None],
      [audio_locales |-> <<>>, audio_locale |-> "ja-JP"],
      [audio_locales |-> <<>>, audio_locale |-> "en-US"],
      [audio_locales |-> <<"en-US", "en-GB">>, audio_locale |-> "en-US"] }

VersionEntries ==
    { [guid |-> g, data |-> d] : g \in Ids \cup {None}, d \in VersionData }

SeqsUpTo(S, n) == UNION { [1..k -> S] : k \in 0..n }

Range(s) == { s[i] : i \in DOMAIN s }


Last(s) == s[Len(s)]

Front(s) == SubSeq(s, 1, Len(s) - 1)

\* the orders in which a set may be iterated
Orderings(S) == { s \in [1..Cardinality(S) -> S] : Range(s) = S }

-----------------------------------------------------------------------------
(* LangSelector (yt_dlp/utils): the language-selection expressions *)

\* the 'language' arguments the model resolves; an expression is given as the
\* list of its tokens between '>' separators
Expressions ==
    { <<>>,
      << <<"~">> >>,
      << <<"*">> >>,
      << <<"ja-jp">>, <<"all">> >>,
      << <<"fr-fr", "*">> >>,
      << <<"$en.*", "~">> >>,
      << <<"ja-jp", "~">> >>,
      << <<"ja-jp">> >>,
      << <<"$en.*">>, <<"ja-jp">> >>,
      << <<"ja-jp">>, <<"$en.*">> >>,
      << <<"?">>, <<"~">> >>,
      << <<"~">>, <<"ja-jp">> >>,
      << <<"fr-fr">> >> }

RegexTokens == {"$en.*"}

\* re.match of the pattern of a '$' token against a language code
regex_matches(tok, code) ==
    /\ tok = "$en.*"
    /\ code \in {"en-us", "en-gb"}

\* LangSelector.get_standard_mapper: token -> matcher
get_standard_mapper(tok) ==
    CASE tok \in {"~", "default"} -> [kind |-> "Default", arg |-> None]
      [] tok \in {"?", "unknown"} -> [kind |-> "Unknown", arg |-> None]
      [] tok \in {"*", "all"}     -> [kind |-> "All", arg |-> None]
      [] tok \in RegexTokens      -> [kind |-> "Regex", arg |-> tok]
      [] OTHER                    -> [kind |-> "Exact", arg |-> casefold(tok)]

\* LangSelector(requested_langs): ordered groups of ordered matchers; an
\* empty or absent expression is the Default matcher alone
LangSelector(langs) ==
    IF langs = <<>>
    THEN << <<get_standard_mapper("~")>> >>
    ELSE [g \in DOMAIN langs |->
            [m \in DOMAIN langs[g] |-> get_standard_mapper(langs[g][m])]]

matcher_matches(m, code) ==
    CASE m.kind = "Default" -> code = DEFAULT_LANG
      [] m.kind = "Unknown" -> code = None
      [] m.kind = "All"     -> TRUE
      [] m.kind = "Exact"   -> code = m.arg
      [] m.kind = "Regex"   -> code \notin {None, DEFAULT_LANG} /\ regex_matches(m.arg, code)

matcher_set(m, codes) == { c \in codes : matcher_matches(m, c) }

\* the full match set of the first matcher of the group that matches a code
match_group(group, codes) ==
    LET hits == { i \in DOMAIN group : matcher_set(group[i], codes) # {} }
    IN  IF hits = {} THEN {}
        ELSE matcher_set(group[CHOOSE i \in hits : \A j \in hits : i <= j], codes)

has_all(selector) ==
    \E g \in DOMAIN selector : \E m \in DOMAIN selector[g] : selector[g][m].kind = "All"

\* LangSelector.get_list_matches: the codes of the set the selector matches
get_list_matches(selector, codes) ==
    IF has_all(selector) THEN codes
    ELSE UNION { match_group(selector[g], codes) : g \in DOMAIN selector }

RECURSIVE dedupe(_)
dedupe(s) ==
    IF s = <<>> THEN <<>>
    ELSE LET f == dedupe(Front(s))
         IN  IF Last(s) \in Range(f) THEN f ELSE Append(f, Last(s))

RECURSIVE flatten(_)
flatten(ss) == IF ss = <<>> THEN <<>> ELSE Head(ss) \o flatten(Tail(ss))

rows_matching(table, codes) ==
    LET keep[i \in 0..Len(table)] ==
            IF i = 0 THEN <<>>
            ELSE IF table[i].lang \in codes THEN Append(keep[i - 1], table[i].vid)
                 ELSE keep[i - 1]
    IN  keep[Len(table)]

\* LangSelector.keep_table_matches: ids of the rows matched, group by group,
\* each id once at its first position
keep_table_matches(selector, table) ==
    LET codes == { table[i].lang : i \in DOMAIN table }
    IN  IF has_all(selector) THEN dedupe([i \in DOMAIN table |-> table[i].vid])
        ELSE dedupe(flatten([g \in DOMAIN selector |->
                        rows_matching(table, match_group(selector[g], codes))]))

-----------------------------------------------------------------------------
(* CrunchyrollBaseIE._get_responses_for_langs *)

\* the languages without case folding
get_audio_langs_not_folded(data) ==
    { data.audio_locales[i] : i \in DOMAIN data.audio_locales }
        \cup (IF data.audio_locale # None THEN {data.audio_locale} ELSE {})

\* the languages of 'audio_locales' alone
get_audio_langs_plural_only(data) ==
    { casefold(data.audio_locales[i]) : i \in DOMAIN data.audio_locales }

get_audio_langs_from_data(data) ==
    { casefold(data.audio_locales[i]) : i \in DOMAIN data.audio_locales }
        \cup (IF data.audio_locale # None THEN {casefold(data.audio_locale)} ELSE {})

\* versions without language give no row: 'for lang in langs'
version_rows_known_only(version) ==
    LET langs == get_audio_langs_from_data(version.data)
    IN  IF version.guid = None THEN { <<>> }
        ELSE { [i \in DOMAIN o |-> [vid |-> version.guid, lang |-> o[i]]] : o \in Orderings(langs) }

\* rows of one version: one per language, in the iteration order of the set,
\* or a single row without language; versions without guid give no row
version_rows(version) ==
    LET langs == get_audio_langs_from_data(version.data)
    IN  IF version.guid = None THEN { <<>> }
        ELSE IF langs = {} THEN { << [vid |-> version.guid, lang |-> None] >> }
        ELSE { [i \in DOMAIN o |-> [vid |-> version.guid, lang |-> o[i]]] : o \in Orderings(langs) }

RECURSIVE version_tables(_)
version_tables(vs) ==
    IF vs = <<>> THEN { <<>> }
    ELSE { r \o t : r \in version_rows(Head(vs)), t \in version_tables(Tail(vs)) }

\* the table without the row of the default language
build_lang_table_no_default(vs, id) == version_tables(vs)

\* the lang tables the code may build: the rows of the versions, then the
\* row of the default language
build_lang_table(vs, id) ==
    { Append(t, [vid |-> id, lang |-> DEFAULT_LANG]) : t \in version_tables(vs) }

\* the None that get_response_by_id returns on a 404
NoResponse == [found |-> FALSE, id |-> None, title |-> None]

\* what get_response_by_id may return for an id: None, or the object of that id
Responses(vid) ==
    {NoResponse} \cup { [found |-> TRUE, id |-> vid, title |-> t] : t \in Titles }

\* results[vid] = response on the ordered dict
dict_set(d, vid, response) ==
    IF \E i \in DOMAIN d : d[i].vid = vid
    THEN [i \in DOMAIN d |-> IF d[i].vid = vid THEN [vid |-> vid, response |-> response] ELSE d[i]]
    ELSE Append(d, [vid |-> vid, response |-> response])

dict_keys(d) == { d[i].vid : i \in DOMAIN d }

dict_get(d, vid) ==
    IF vid \in dict_keys(d) THEN d[CHOOSE i \in DOMAIN d : d[i].vid = vid].response
    ELSE NoResponse

dict_remove(d, vid) ==
    LET keep[i \in 0..Len(d)] ==
            IF i = 0 THEN <<>>
            ELSE IF d[i].vid = vid THEN keep[i - 1] ELSE Append(keep[i - 1], d[i])
    IN  keep[Len(d)]

-----------------------------------------------------------------------------
(* CrunchyrollBetaIE._extract_version and the merge of the versions *)

\* the formats _extract_formats gives for the streams of one version
version_formats(vid) ==
    [k \in 1..FormatsPerVersion |-> [version |-> vid, n |-> k, stamped |-> {}]]

\* _extract_version on an episode response; on None, response.get raises
\* AttributeError (raised = TRUE)
extract_version(vid, response) ==
    IF ~response.found
    THEN [raised |-> TRUE, id |-> None, title |-> None, thumbnails |-> None, formats |-> <<>>]
    ELSE [raised |-> FALSE, id |-> response.id, title |-> response.title,
          thumbnails |-> response.id, formats |-> version_formats(vid)]

\* result.items(): key, value, and whether the value is hashable (the
\* thumbnails, formats and subtitles are lists and dicts)
result_items(r) ==
    { [key |-> "id", value |-> r.id, hashable |-> TRUE],
      [key |-> "title", value |-> r.title, hashable |-> TRUE],
      [key |-> "thumbnails", value |-> r.thumbnails, hashable |-> FALSE] }

is_attribute_hashable(attribute) == attribute.hashable

\* the difference taken the wrong way round: dict(result_as_set - version_as_set)
version_differences_reversed(version, result) ==
    { a \in result_items(result) : a.hashable } \ { a \in result_items(version) : a.hashable }

\* dict(version_as_set - result_as_set)
version_differences(version, result) ==
    { a \in result_items(version) : is_attribute_hashable(a) }
        \ { a \in result_items(result) : is_attribute_hashable(a) }

\* version_format.update(version_differences)
stamp_format(f, differences) ==
    [f EXCEPT !.stamped =
        { a \in f.stamped : \A b \in differences : b.key # a.key }
            \cup { [key |-> b.key, value |-> b.value] : b \in differences }]

\* the main version of the merge: the response of internal_id when the dict
\* holds one, else the item popitem() removes (the last one)
main_version(id, responses) ==
    LET popped == dict_get(responses, id)
        rest   == dict_remove(responses, id)
    IN  IF popped.found
        THEN [vid |-> id, response |-> popped, rest |-> rest]
        ELSE [vid |-> Last(rest).vid, response |-> Last(rest).response, rest |-> Front(rest)]

\* the loop over the other versions: stops at the first extract_version that
\* raises; calls counts the extract_version calls made
RECURSIVE merge_versions(_, _, _)
merge_versions(result, rest, calls) ==
    IF rest = <<>> THEN [kind |-> "result", result |-> result, calls |-> calls]
    ELSE LET version == extract_version(Head(rest).vid, Head(rest).response)
             diff    == version_differences(version, result)
             stamped == [k \in DOMAIN version.formats |-> stamp_format(version.formats[k], diff)]
         IN  IF version.raised
             THEN [kind |-> "AttributeError", result |-> result, calls |-> calls + 1]
             ELSE merge_versions([result EXCEPT !.formats = @ \o stamped], Tail(rest), calls + 1)

extract_versions_and_merge_results(id, responses) ==
    IF Len(responses) = 1
    THEN LET only == extract_version(responses[1].vid, responses[1].response)
         IN  [kind |-> IF only.raised THEN "AttributeError" ELSE "result",
              result |-> only, calls |-> 1]
    ELSE LET main   == main_version(id, responses)
             result == extract_version(main.vid, main.response)
         IN  IF result.raised
             THEN [kind |-> "AttributeError", result |-> result, calls |-> 1]
             ELSE merge_versions(result, main.rest, 1)

-----------------------------------------------------------------------------
(* CrunchyrollBetaIE._real_extract *)

NoOutcome == [kind |-> "running"]

\* the callers of the api
Callers == {1, 2}

NoToken == 0

\* no series extraction is running
ShowIdle ==
    /\ series = <<>>
    /\ show_langs = <<>>
    /\ spc = "idle"
    /\ season_idx = 1
    /\ episode_table = <<>>
    /\ matching_langs = {}
    /\ matching_default = FALSE
    /\ requests = <<>>
    /\ epos = 1
    /\ entries = <<>>
    /\ pulls = 0

\* no api call is running
AuthIdle ==
    /\ QUERY = {}
    /\ BASIC_AUTH = FALSE
    /\ AUTH_HEADERS = NoToken
    /\ AUTH_REFRESH = [defined |-> FALSE, token |-> NoToken, expires |-> 0]
    /\ now = 0
    /\ token_requests = 0
    /\ cpc = [c \in Callers |-> "off"]
    /\ clang = [c \in Callers |-> ""]
    /\ auth_response = [c \in Callers |-> [token |-> NoToken, expires_in |-> 0]]
    /\ error = [c \in Callers |-> ""]
    /\ calls_started = 0

\* _extract_formats is not running
FormatsIdle ==
    /\ stream_response = <<>>
    /\ format_arg = <<>>
    /\ hardsub_arg = <<>>
    /\ fpc = "idle"
    /\ available_formats = <<>>
    /\ full_format_langs = {}
    /\ fidx = 1
    /\ formats = <<>>
    /\ manifest_fetches = <<>>
    /\ hint_shown = FALSE
    /\ warnings = {}

Init ==
    /\ FormatsIdle
    /\ ShowIdle
    /\ AuthIdle
    /\ internal_id = "v0"
    /\ versions \in SeqsUpTo(VersionEntries, MaxVersions)
    /\ requested_langs \in Expressions
    /\ pc = "start"
    /\ default_response = NoResponse
    /\ lang_table = <<>>
    /\ requested_ids = <<>>
    /\ idx = 1
    /\ results = <<>>
    /\ screen = {}
    /\ fetch_log = <<>>
    /\ outcome = NoOutcome

\* default_response = get_response_by_id(internal_id): found
FetchDefault ==
    /\ pc = "start"
    /\ \E r \in Responses(internal_id) :
         /\ r.found
         /\ r.title = "t1"   \* the titles are interchangeable: the first fetch sees t1
         /\ default_response' = r
    /\ fetch_log' = Append(fetch_log, internal_id)
    /\ pc' = "table"
    /\ UNCHANGED <<internal_id, versions, requested_langs, lang_table, requested_ids,
                   idx, results, screen, outcome>>
    /\ UNCHANGED fvars
    /\ UNCHANGED ovars

\* default_response is None: 'No video with id ... could be found'
FetchDefaultNotFound ==
    /\ pc = "start"
    /\ default_response' = NoResponse
    /\ fetch_log' = Append(fetch_log, internal_id)
    /\ pc' = "done"
    /\ outcome' = [kind |-> "ExtractorError", message |-> "No video with id could be found"]
    /\ UNCHANGED <<internal_id, versions, requested_langs, lang_table, requested_ids,
                   idx, results, screen>>
    /\ UNCHANGED fvars
    /\ UNCHANGED ovars

\* build the lang table and keep the selected ids
SelectVersions ==
    /\ pc = "table"
    /\ \E t \in build_lang_table(versions, internal_id) :
         /\ lang_table' = t
         /\ requested_ids' = keep_table_matches(LangSelector(requested_langs), t)
    /\ results' = <<>>
    /\ idx' = 1
    /\ pc' = "loop"
    /\ UNCHANGED <<internal_id, versions, requested_langs, default_response, screen,
                   fetch_log, outcome>>
    /\ UNCHANGED fvars
    /\ UNCHANGED ovars

\* loop body with the 'vid == internal_id' shortcut left out: the requested id
\* is asked for again
UseDefaultResponse_refetch ==
    /\ pc = "loop"
    /\ idx <= Len(requested_ids)
    /\ requested_ids[idx] = internal_id
    /\ results' = dict_set(results, requested_ids[idx], default_response)
    /\ fetch_log' = Append(fetch_log, requested_ids[idx])
    /\ idx' = idx + 1
    /\ UNCHANGED <<internal_id, versions, requested_langs, pc, default_response,
                   lang_table, requested_ids, screen, outcome>>
    /\ UNCHANGED fvars
    /\ UNCHANGED ovars

\* loop body, vid == internal_id: the default response is used
UseDefaultResponse ==
    /\ pc = "loop"
    /\ idx <= Len(requested_ids)
    /\ requested_ids[idx] = internal_id
    /\ results' = dict_set(results, requested_ids[idx], default_response)
    /\ idx' = idx + 1
    /\ UNCHANGED <<internal_id, versions, requested_langs, pc, default_response,
                   lang_table, requested_ids, screen, fetch_log, outcome>>
    /\ UNCHANGED fvars
    /\ UNCHANGED ovars

\* loop body, other version: fetch it, report it when it is not found
FetchVersion ==
    /\ pc = "loop"
    /\ idx <= Len(requested_ids)
    /\ requested_ids[idx] # internal_id
    /\ \E r \in Responses(requested_ids[idx]) :
         /\ screen' = IF r.found THEN screen ELSE screen \cup {requested_ids[idx]}
         /\ results' = dict_set(results, requested_ids[idx], r)
    /\ fetch_log' = Append(fetch_log, requested_ids[idx])
    /\ idx' = idx + 1
    /\ UNCHANGED <<internal_id, versions, requested_langs, pc, default_response,
                   lang_table, requested_ids, outcome>>
    /\ UNCHANGED fvars
    /\ UNCHANGED ovars

\* return results; _real_extract: 'if not responses: raise ExtractorError'
NoneFound ==
    /\ pc = "loop"
    /\ idx > Len(requested_ids)
    /\ results = <<>>
    /\ pc' = "done"
    /\ outcome' = [kind |-> "ExtractorError",
                   message |-> "None of the requested audio languages were found"]
    /\ UNCHANGED <<internal_id, versions, requested_langs, default_response, lang_table,
                   requested_ids, idx, results, screen, fetch_log>>
    /\ UNCHANGED fvars
    /\ UNCHANGED ovars

\* return self._extract_versions_and_merge_results(...)
MergeResults ==
    /\ pc = "loop"
    /\ idx > Len(requested_ids)
    /\ results # <<>>
    /\ pc' = "done"
    /\ outcome' = extract_versions_and_merge_results(internal_id, results)
    /\ UNCHANGED <<internal_id, versions, requested_langs, default_response, lang_table,
                   requested_ids, idx, results, screen, fetch_log>>
    /\ UNCHANGED fvars
    /\ UNCHANGED ovars

Next ==
    \/ FetchDefault
    \/ FetchDefaultNotFound
    \/ SelectVersions
    \/ UseDefaultResponse
    \/ FetchVersion
    \/ NoneFound
    \/ MergeResults

Spec == Init /\ [][Next]_vars

-----------------------------------------------------------------------------
(* CrunchyrollBaseIE._extract_formats *)

StreamTypes == {"adaptive_hls", "adaptive_dash", "urls"}

HardsubLocales == {None, "en-US", "de-DE"}

\* a stream of the response; url is "" when the stream has none
StreamDescriptors ==
    { [stream_type |-> t, hardsub_locale |-> h, url |-> u] :
        t \in StreamTypes, h \in HardsubLocales, u \in {"", "url"} }

\* the values of the 'format' argument the model runs with
FormatArgs ==
    { <<>>, <<"adaptive_hls", "adaptive_dash">>, <<"adaptive_dash">>, <<"adaptive_hls", "urls">> }

\* the values of the 'hardsub' argument the model runs with
HardsubArgs ==
    { <<>>, <<"none">>, <<"all">>, <<"en-us">>, <<"en-us", "de-de">>, <<"de-de", "none">> }

\* str.lower on the hardsub languages
lower(v) ==
    CASE v = "en-US" -> "en-us"
      [] v = "de-DE" -> "de-de"
      [] OTHER -> v

\* stream_type.endswith('hls'), stream_type.endswith('dash')
is_hls(stream_type) == stream_type \in {"adaptive_hls"}

is_dash(stream_type) == stream_type \in {"adaptive_dash"}

\* self._configuration_arg('format') or ['adaptive_hls']
requested_formats(arg) == IF arg = <<>> THEN <<"adaptive_hls">> ELSE arg

\* ['' if val == 'none' else val for val in (arg or ['none'])]
requested_hardsubs(arg) ==
    LET vals == IF arg = <<>> THEN <<"none">> ELSE arg
    IN  [i \in DOMAIN vals |-> IF vals[i] = "none" THEN "" ELSE vals[i]]

\* stream.get('hardsub_locale') or ''
hardsub_lang_of(stream) == IF stream.hardsub_locale = None THEN "" ELSE stream.hardsub_locale

\* available_formats[hardsub_lang] = (stream_type, format_id, hardsub_lang, url);
\* source is the position of the stream, which tells the urls apart
available_entry(stream, i) ==
    [key |-> hardsub_lang_of(stream),
     stream_type |-> stream.stream_type,
     format_id |-> <<stream.stream_type, hardsub_lang_of(stream)>>,
     hardsub_lang |-> hardsub_lang_of(stream),
     source |-> i]

\* assignment to a key of the ordered dict: a key already present keeps its place
formats_set(d, entry) ==
    IF \E i \in DOMAIN d : d[i].key = entry.key
    THEN [i \in DOMAIN d |-> IF d[i].key = entry.key THEN entry ELSE d[i]]
    ELSE Append(d, entry)

\* the first loop: the streams of the requested types that have a url
collect_available_formats(streams, wanted) ==
    LET acc[i \in 0..Len(streams)] ==
            IF i = 0 THEN <<>>
            ELSE IF streams[i].stream_type \in Range(wanted) /\ streams[i].url # ""
                 THEN formats_set(acc[i - 1], available_entry(streams[i], i))
                 ELSE acc[i - 1]
    IN  acc[Len(streams)]

\* the test without 'all': if '' in available_formats
limits_full_formats_ignoring_all(available, hardsubs) ==
    \E i \in DOMAIN available : available[i].key = ""

\* whether only the requested hardsub languages get all their formats
limits_full_formats(available, hardsubs) ==
    /\ \E i \in DOMAIN available : available[i].key = ""
    /\ "all" \notin Range(hardsubs)

\* every available language, whatever is requested
compute_full_format_langs_all(available, hardsubs) ==
    { lower(available[i].key) : i \in DOMAIN available }

compute_full_format_langs(available, hardsubs) ==
    IF limits_full_formats(available, hardsubs)
    THEN Range(hardsubs)
    ELSE { lower(available[i].key) : i \in DOMAIN available }

Reverse(s) == [i \in DOMAIN s |-> s[Len(s) + 1 - i]]

\* qualities(quality_ids)(qid): the index of qid, or -1
qualities(quality_ids, qid) ==
    IF qid \in Range(quality_ids)
    THEN (CHOOSE i \in DOMAIN quality_ids :
             quality_ids[i] = qid /\ \A j \in DOMAIN quality_ids : quality_ids[j] = qid => i <= j) - 1
    ELSE 0 - 1

\* the rank taken from the list as requested, not reversed
hardsub_preference_not_reversed(arg, hardsub_lang) ==
    qualities(requested_hardsubs(arg), lower(hardsub_lang))

hardsub_preference(arg, hardsub_lang) ==
    qualities(Reverse(requested_hardsubs(arg)), lower(hardsub_lang))

\* the formats of a resolved manifest that lists n renditions
adaptive_formats(entry, n, arg) ==
    [k \in 1..n |-> [format_id |-> entry.format_id, source |-> entry.source, coarse |-> FALSE,
                     n |-> k, quality |-> hardsub_preference(arg, entry.hardsub_lang)]]

\* (self._m3u8_meta_format(stream_url, ...),)
meta_format(entry, arg) ==
    << [format_id |-> entry.format_id, source |-> entry.source, coarse |-> TRUE,
        n |-> 1, quality |-> hardsub_preference(arg, entry.hardsub_lang)] >>

\* a resolved manifest lists its renditions, or nothing when the download
\* fails (fatal=False)
RenditionCounts == {0, RenditionsPerManifest}

ResolveIdle ==
    /\ internal_id = "v0"
    /\ versions = <<>>
    /\ requested_langs = <<>>
    /\ pc = "idle"
    /\ default_response = NoResponse
    /\ lang_table = <<>>
    /\ requested_ids = <<>>
    /\ idx = 1
    /\ results = <<>>
    /\ screen = {}
    /\ fetch_log = <<>>
    /\ outcome = NoOutcome

FormatsInit ==
    /\ ResolveIdle
    /\ ShowIdle
    /\ AuthIdle
    /\ stream_response \in SeqsUpTo(StreamDescriptors, MaxStreams)
    /\ format_arg \in FormatArgs
    /\ hardsub_arg \in HardsubArgs
    /\ fpc = "start"
    /\ available_formats = <<>>
    /\ full_format_langs = {}
    /\ fidx = 1
    /\ formats = <<>>
    /\ manifest_fetches = <<>>
    /\ hint_shown = FALSE
    /\ warnings = {}

\* up to the loop over available_formats.values()
CollectStreams ==
    /\ fpc = "start"
    /\ LET available == collect_available_formats(stream_response, requested_formats(format_arg))
           hardsubs  == requested_hardsubs(hardsub_arg)
       IN  /\ available_formats' = available
           /\ full_format_langs' = compute_full_format_langs(available, hardsubs)
           /\ hint_shown' = limits_full_formats(available, hardsubs)
    /\ fidx' = 1
    /\ fpc' = "loop"
    /\ UNCHANGED <<stream_response, format_arg, hardsub_arg, formats, manifest_fetches, warnings>>
    /\ UNCHANGED rvars
    /\ UNCHANGED ovars

\* HLS stream of a language in full_format_langs: _extract_m3u8_formats
ExpandHls ==
    /\ fpc = "loop"
    /\ fidx <= Len(available_formats)
    /\ LET entry == available_formats[fidx]
       IN  /\ is_hls(entry.stream_type)
           /\ lower(entry.hardsub_lang) \in full_format_langs
           /\ manifest_fetches' = Append(manifest_fetches, [kind |-> "m3u8", source |-> entry.source])
           /\ \E n \in RenditionCounts :
                formats' = formats \o adaptive_formats(entry, n, hardsub_arg)
    /\ fidx' = fidx + 1
    /\ UNCHANGED <<stream_response, format_arg, hardsub_arg, fpc, available_formats,
                   full_format_langs, hint_shown, warnings>>
    /\ UNCHANGED rvars
    /\ UNCHANGED ovars

\* HLS stream of another language: one format made from the stream url
CoarseHls ==
    /\ fpc = "loop"
    /\ fidx <= Len(available_formats)
    /\ LET entry == available_formats[fidx]
       IN  /\ is_hls(entry.stream_type)
           /\ lower(entry.hardsub_lang) \notin full_format_langs
           /\ formats' = formats \o meta_format(entry, hardsub_arg)
    /\ fidx' = fidx + 1
    /\ UNCHANGED <<stream_response, format_arg, hardsub_arg, fpc, available_formats,
                   full_format_langs, manifest_fetches, hint_shown, warnings>>
    /\ UNCHANGED rvars
    /\ UNCHANGED ovars

\* DASH stream: _extract_mpd_formats
ExpandDash ==
    /\ fpc = "loop"
    /\ fidx <= Len(available_formats)
    /\ LET entry == available_formats[fidx]
       IN  /\ ~is_hls(entry.stream_type)
           /\ is_dash(entry.stream_type)
           /\ manifest_fetches' = Append(manifest_fetches, [kind |-> "mpd", source |-> entry.source])
           /\ \E n \in RenditionCounts :
                formats' = formats \o adaptive_formats(entry, n, hardsub_arg)
    /\ fidx' = fidx + 1
    /\ UNCHANGED <<stream_response, format_arg, hardsub_arg, fpc, available_formats,
                   full_format_langs, hint_shown, warnings>>
    /\ UNCHANGED rvars
    /\ UNCHANGED ovars

\* any other stream type: warning, continue
UnknownStreamType ==
    /\ fpc = "loop"
    /\ fidx <= Len(available_formats)
    /\ LET entry == available_formats[fidx]
       IN  /\ ~is_hls(entry.stream_type)
           /\ ~is_dash(entry.stream_type)
           /\ warnings' = warnings \cup {entry.stream_type}
    /\ fidx' = fidx + 1
    /\ UNCHANGED <<stream_response, format_arg, hardsub_arg, fpc, available_formats,
                   full_format_langs, formats, manifest_fetches, hint_shown>>
    /\ UNCHANGED rvars
    /\ UNCHANGED ovars

\* return formats
ReturnFormats ==
    /\ fpc = "loop"
    /\ fidx > Len(available_formats)
    /\ fpc' = "done"
    /\ UNCHANGED <<stream_response, format_arg, hardsub_arg, available_formats,
                   full_format_langs, fidx, formats, manifest_fetches, hint_shown, warnings>>
    /\ UNCHANGED rvars
    /\ UNCHANGED ovars

FormatsNext ==
    \/ CollectStreams
    \/ ExpandHls
    \/ CoarseHls
    \/ ExpandDash
    \/ UnknownStreamType
    \/ ReturnFormats

SpecFormats == FormatsInit /\ [][FormatsNext]_vars

-----------------------------------------------------------------------------
(* CrunchyrollBetaShowIE._real_extract and the playlist it returns *)

\* the seasons the model enumerates: lists of the language fields of their
\* episodes
SeasonLists ==
    LET none  == [audio_locales |-> <<>>, audio_locale |-> None]
        ja    == [audio_locales |-> <<>>, audio_locale |-> "ja-JP"]
        en    == [audio_locales |-> <<>>, audio_locale |-> "en-US"]
        multi == [audio_locales |-> <<"en-US", "en-GB">>, audio_locale |-> "en-US"]
    IN  { <<>>, <<ja>>, <<en>>, <<none, ja>>, <<ja, en>>, <<multi, ja>>, <<en, none>> }

\* the items of the 'episode list' response of season s; every episode has an
\* id, here its place in the series
episodes_response(all_seasons, s) ==
    [e \in DOMAIN all_seasons[s] |-> [id |-> <<s, e>>, data |-> all_seasons[s][e]]]

\* the rows episode_table gets from one episode list:
\* (eid, _get_audio_langs_from_data(resp) or [])
table_rows(episodes) ==
    [e \in DOMAIN episodes |->
        [eid |-> episodes[e].id, langs |-> get_audio_langs_from_data(episodes[e].data)]]

\* the set built without episode_langs.add(default_lang)
episode_langs_without_default(table) ==
    UNION { IF table[i].langs = {} THEN {None} ELSE table[i].langs : i \in DOMAIN table }

\* {lang for _, langs, _ in episode_table for lang in (langs or [None])}
\* with the default language added
episode_langs(table) ==
    UNION { IF table[i].langs = {} THEN {None} ELSE table[i].langs : i \in DOMAIN table }
        \cup {DEFAULT_LANG}

\* LangSelector.has_match: whether the code is among the matched codes
has_match(code, matches) == code \in matches

\* LangSelector.has_matches: the codes of the episode among the matched
\* codes; an episode without codes is looked up as the unknown language
has_matches(codes, matches) == (IF codes = {} THEN {None} ELSE codes) \cap matches

\* matching_ep_langs of entries()
matching_ep_langs(row, matches, is_default) ==
    IF ~is_default THEN has_matches(row.langs, matches) ELSE {"~"}

\* the next row at or after pos that entries() yields, 0 when there is none
next_entry(table, pos, matches, is_default) ==
    LET hits == { k \in pos..Len(table) : matching_ep_langs(table[k], matches, is_default) # {} }
    IN  IF hits = {} THEN 0 ELSE CHOOSE k \in hits : \A j \in hits : k <= j

ShowInit ==
    /\ ResolveIdle
    /\ FormatsIdle
    /\ AuthIdle
    /\ series \in SeqsUpTo(SeasonLists, MaxSeasons)
    /\ show_langs \in Expressions
    /\ spc = "start"
    /\ season_idx = 1
    /\ episode_table = <<>>
    /\ matching_langs = {}
    /\ matching_default = FALSE
    /\ requests = <<>>
    /\ epos = 1
    /\ entries = <<>>
    /\ pulls = 0

\* episode_responses(), consumed by the list comprehension: the seasons request
FetchSeasons ==
    /\ spc = "start"
    /\ requests' = Append(requests, [kind |-> "seasons", season |-> 0])
    /\ season_idx' = 1
    /\ spc' = "episodes"
    /\ UNCHANGED <<series, show_langs, episode_table, matching_langs, matching_default,
                   epos, entries, pulls>>
    /\ UNCHANGED <<rvars, fvars, avars>>

\* episode_responses(), next season: the episode list request and its rows
FetchEpisodeList ==
    /\ spc = "episodes"
    /\ season_idx <= Len(series)
    /\ requests' = Append(requests, [kind |-> "episodes", season |-> season_idx])
    /\ episode_table' = episode_table \o table_rows(episodes_response(series, season_idx))
    /\ season_idx' = season_idx + 1
    /\ UNCHANGED <<series, show_langs, spc, matching_langs, matching_default,
                   epos, entries, pulls>>
    /\ UNCHANGED <<rvars, fvars, avars>>

\* the table is complete: the selector is matched, the series is requested
\* and the playlist is returned with entries() not yet started
ReturnPlaylist ==
    /\ spc = "episodes"
    /\ season_idx > Len(series)
    /\ LET selector == LangSelector(show_langs)
           matches  == get_list_matches(selector, episode_langs(episode_table))
       IN  /\ matching_langs' = matches
           /\ matching_default' = has_match(DEFAULT_LANG, matches)
    /\ requests' = Append(requests, [kind |-> "series", season |-> 0])
    /\ spc' = "playlist"
    /\ UNCHANGED <<series, show_langs, season_idx, episode_table, epos, entries, pulls>>
    /\ UNCHANGED <<rvars, fvars, avars>>

\* the consumer asks entries() for an element and gets the next url result
PullEntry ==
    /\ spc = "playlist"
    /\ LET k == next_entry(episode_table, epos, matching_langs, matching_default)
       IN  /\ k # 0
           /\ entries' = Append(entries,
                  [eid |-> episode_table[k].eid,
                   target_audio_langs |->
                       matching_ep_langs(episode_table[k], matching_langs, matching_default)])
           /\ epos' = k + 1
    /\ pulls' = pulls + 1
    /\ UNCHANGED <<series, show_langs, spc, season_idx, episode_table, matching_langs,
                   matching_default, requests>>
    /\ UNCHANGED <<rvars, fvars, avars>>

\* the consumer asks entries() for an element and the generator ends
EndOfEntries ==
    /\ spc = "playlist"
    /\ next_entry(episode_table, epos, matching_langs, matching_default) = 0
    /\ epos' = Len(episode_table) + 1
    /\ pulls' = pulls + 1
    /\ spc' = "exhausted"
    /\ UNCHANGED <<series, show_langs, season_idx, episode_table, matching_langs,
                   matching_default, requests, entries>>
    /\ UNCHANGED <<rvars, fvars, avars>>

ShowNext ==
    \/ FetchSeasons
    \/ FetchEpisodeList
    \/ ReturnPlaylist
    \/ PullEntry
    \/ EndOfEntries

SpecShow == ShowInit /\ [][ShowNext]_vars

-----------------------------------------------------------------------------
(* CrunchyrollBaseIE._call_base_api: _update_query and _update_auth *)

\* the language prefixes of the urls
Langs == {"", "de"}

\* what the main page download gives: nothing (the download fails), a page
\* without __INITIAL_STATE__, a page without __APP_CONFIG__, an app config
\* without cxApiParams, or the full page
Pages == {"download_error", "no_initial_state", "no_app_config", "no_cx_api_params", "full"}

\* 'expires_in' - 10 of a token response, in clock ticks
TokenLifetimes == {1, 2}

\* _update_query(lang) on a page: the new _QUERY keys, whether _BASIC_AUTH is
\* set, and the exception raised ("" for none)
update_query(query, basic_auth, lang, page) ==
    IF lang \in query
    THEN [QUERY |-> query, BASIC_AUTH |-> basic_auth, error |-> ""]
    ELSE IF page \in {"download_error", "no_initial_state"}
    THEN [QUERY |-> query, BASIC_AUTH |-> basic_auth, error |-> "ExtractorError"]
    ELSE IF basic_auth
    THEN [QUERY |-> query \cup {lang}, BASIC_AUTH |-> basic_auth, error |-> ""]
    ELSE IF page = "no_app_config"
    THEN [QUERY |-> query \cup {lang}, BASIC_AUTH |-> basic_auth, error |-> "ExtractorError"]
    ELSE IF page = "no_cx_api_params"
    THEN [QUERY |-> query \cup {lang}, BASIC_AUTH |-> basic_auth, error |-> "KeyError"]
    ELSE [QUERY |-> query \cup {lang}, BASIC_AUTH |-> TRUE, error |-> ""]

\* the first statements of _update_auth: return when the token is still
\* good, else assert _BASIC_AUTH and go on to the token request; reading
\* _AUTH_REFRESH before it was ever assigned raises AttributeError
auth_check(headers, refresh, time, basic_auth) ==
    IF headers # NoToken /\ ~refresh.defined THEN "AttributeError"
    ELSE IF headers # NoToken /\ refresh.expires > time THEN "return"
    ELSE IF ~basic_auth THEN "AssertionError"
    ELSE "token"

\* _call_base_api(endpoint, internal_id, lang) is called
StartCall(c) ==
    /\ cpc[c] \in {"idle", "returned", "raised"}
    /\ calls_started < MaxCalls
    /\ \E lang \in Langs : clang' = [clang EXCEPT ![c] = lang]
    /\ cpc' = [cpc EXCEPT ![c] = "update_query"]
    /\ error' = [error EXCEPT ![c] = ""]
    /\ calls_started' = calls_started + 1
    /\ UNCHANGED <<QUERY, BASIC_AUTH, AUTH_HEADERS, AUTH_REFRESH, now, token_requests,
                   auth_response>>
    /\ UNCHANGED <<rvars, fvars, svars>>

\* self._update_query(lang)
UpdateQuery(c) ==
    /\ cpc[c] = "update_query"
    /\ \E page \in Pages :
         LET r == update_query(QUERY, BASIC_AUTH, clang[c], page)
         IN  /\ QUERY' = r.QUERY
             /\ BASIC_AUTH' = r.BASIC_AUTH
             /\ error' = [error EXCEPT ![c] = r.error]
             /\ cpc' = [cpc EXCEPT ![c] = IF r.error = "" THEN "update_auth" ELSE "raised"]
    /\ UNCHANGED <<AUTH_HEADERS, AUTH_REFRESH, now, token_requests, clang, auth_response,
                   calls_started>>
    /\ UNCHANGED <<rvars, fvars, svars>>

\* _update_auth, line 91 to the assert
AuthCheck(c) ==
    /\ cpc[c] = "update_auth"
    /\ LET r == auth_check(AUTH_HEADERS, AUTH_REFRESH, now, BASIC_AUTH)
       IN  /\ cpc' = [cpc EXCEPT ![c] = CASE r = "return" -> "auth_done"
                                          [] r = "token" -> "token"
                                          [] OTHER -> "raised"]
           /\ error' = [error EXCEPT ![c] = IF r \in {"return", "token"} THEN "" ELSE r]
    /\ UNCHANGED <<QUERY, BASIC_AUTH, AUTH_HEADERS, AUTH_REFRESH, now, token_requests,
                   clang, auth_response, calls_started>>
    /\ UNCHANGED <<rvars, fvars, svars>>

\* _update_auth: the token request answers with a new token
RequestToken(c) ==
    /\ cpc[c] = "token"
    /\ token_requests' = token_requests + 1
    /\ \E life \in TokenLifetimes :
         auth_response' = [auth_response EXCEPT
                               ![c] = [token |-> token_requests + 1, expires_in |-> life]]
    /\ cpc' = [cpc EXCEPT ![c] = "set_headers"]
    /\ UNCHANGED <<QUERY, BASIC_AUTH, AUTH_HEADERS, AUTH_REFRESH, now, clang, error,
                   calls_started>>
    /\ UNCHANGED <<rvars, fvars, svars>>

\* _update_auth: the token request fails
TokenRequestFails(c) ==
    /\ cpc[c] = "token"
    /\ token_requests' = token_requests + 1
    /\ cpc' = [cpc EXCEPT ![c] = "raised"]
    /\ error' = [error EXCEPT ![c] = "ExtractorError"]
    /\ UNCHANGED <<QUERY, BASIC_AUTH, AUTH_HEADERS, AUTH_REFRESH, now, clang, auth_response,
                   calls_started>>
    /\ UNCHANGED <<rvars, fvars, svars>>

\* CrunchyrollBaseIE._AUTH_HEADERS = ...
SetHeaders(c) ==
    /\ cpc[c] = "set_headers"
    /\ AUTH_HEADERS' = auth_response[c].token
    /\ cpc' = [cpc EXCEPT ![c] = "set_refresh"]
    /\ UNCHANGED <<QUERY, BASIC_AUTH, AUTH_REFRESH, now, token_requests, clang,
                   auth_response, error, calls_started>>
    /\ UNCHANGED <<rvars, fvars, svars>>

\* CrunchyrollBaseIE._AUTH_REFRESH = time_seconds(seconds=expires_in - 10)
SetRefresh(c) ==
    /\ cpc[c] = "set_refresh"
    /\ AUTH_REFRESH' = [defined |-> TRUE, token |-> auth_response[c].token,
                        expires |-> now + auth_response[c].expires_in]
    /\ cpc' = [cpc EXCEPT ![c] = "auth_done"]
    /\ UNCHANGED <<QUERY, BASIC_AUTH, AUTH_HEADERS, now, token_requests, clang,
                   auth_response, error, calls_started>>
    /\ UNCHANGED <<rvars, fvars, svars>>

\* the api request of _call_base_api, which answers or fails
Download(c) ==
    /\ cpc[c] = "auth_done"
    /\ \E e \in {"", "ExtractorError"} :
         /\ error' = [error EXCEPT ![c] = e]
         /\ cpc' = [cpc EXCEPT ![c] = IF e = "" THEN "returned" ELSE "raised"]
    /\ UNCHANGED <<QUERY, BASIC_AUTH, AUTH_HEADERS, AUTH_REFRESH, now, token_requests,
                   clang, auth_response, calls_started>>
    /\ UNCHANGED <<rvars, fvars, svars>>

\* time passes
Tick ==
    /\ now < MaxClock
    /\ now' = now + 1
    /\ UNCHANGED <<QUERY, BASIC_AUTH, AUTH_HEADERS, AUTH_REFRESH, token_requests, cpc,
                   clang, auth_response, error, calls_started>>
    /\ UNCHANGED <<rvars, fvars, svars>>

\* one extractor making one _call_base_api call after the other, on the
\* class attributes as they are when the module is loaded
BaseApiInit ==
    /\ ResolveIdle
    /\ FormatsIdle
    /\ ShowIdle
    /\ QUERY = {}
    /\ BASIC_AUTH = FALSE
    /\ AUTH_HEADERS = NoToken
    /\ AUTH_REFRESH = [defined |-> FALSE, token |-> NoToken, expires |-> 0]
    /\ now = 0
    /\ token_requests = 0
    /\ cpc = [c \in Callers |-> IF c = 1 THEN "idle" ELSE "off"]
    /\ clang = [c \in Callers |-> ""]
    /\ auth_response = [c \in Callers |-> [token |-> NoToken, expires_in |-> 0]]
    /\ error = [c \in Callers |-> ""]
    /\ calls_started = 0

BaseApiNext ==
    \/ StartCall(1)
    \/ UpdateQuery(1)
    \/ AuthCheck(1)
    \/ RequestToken(1)
    \/ TokenRequestFails(1)
    \/ SetHeaders(1)
    \/ SetRefresh(1)
    \/ Download(1)
    \/ Tick

SpecBaseApi == BaseApiInit /\ [][BaseApiNext]_vars

\* two callers enter _update_auth together, _update_query done; the token is
\* absent (nothing was ever assigned) or the one of an earlier request has
\* expired
AuthInit ==
    /\ ResolveIdle
    /\ FormatsIdle
    /\ ShowIdle
    /\ QUERY = {""}
    /\ BASIC_AUTH = TRUE
    /\ \/ /\ token_requests = 0
          /\ AUTH_HEADERS = NoToken
          /\ AUTH_REFRESH = [defined |-> FALSE, token |-> NoToken, expires |-> 0]
       \/ /\ token_requests = 1
          /\ AUTH_HEADERS = 1
          /\ AUTH_REFRESH = [defined |-> TRUE, token |-> 1, expires |-> 0]
    /\ now = 0
    /\ cpc = [c \in Callers |-> "update_auth"]
    /\ clang = [c \in Callers |-> ""]
    /\ auth_response = [c \in Callers |-> [token |-> NoToken, expires_in |-> 0]]
    /\ error = [c \in Callers |-> ""]
    /\ calls_started = 0

AuthNext ==
    \/ \E c \in Callers : AuthCheck(c)
    \/ \E c \in Callers : RequestToken(c)
    \/ \E c \in Callers : SetHeaders(c)
    \/ \E c \in Callers : SetRefresh(c)
    \/ Tick

SpecAuth == AuthInit /\ [][AuthNext]_vars

-----------------------------------------------------------------------------
(* Properties of the resolution of one video *)

\* _get_responses_for_langs has returned
Returned == pc = "done" \/ (pc = "loop" /\ idx > Len(requested_ids))

\* the entries of the returned mapping that hold a response
Survivors == { i \in DOMAIN results : results[i].response.found }

\* C1: an id whose fetch returned 'not found' has no entry in the returned
\* responses mapping (the merge never receives a missing response), and a
\* message was printed for it.
C1_NotFoundIdsAreDropped ==
    Returned /\ default_response.found =>
        /\ \A i \in DOMAIN results : results[i].response.found
        /\ \A vid \in screen : vid \notin dict_keys(results)

\* C2: when no version survives the fetches, _real_extract ends in the error
\* 'None of the requested audio languages were found' and gives no result.
C2_ZeroSurvivorsIsFatal ==
    pc = "done" /\ default_response.found /\ Survivors = {} =>
        /\ outcome.kind = "ExtractorError"
        /\ outcome.message = "None of the requested audio languages were found"

\* C3: when exactly one version survived the fetches, the merge returns the
\* result of extract_version for that version, with no stamped field on any
\* format, and extract_version is called exactly once.
C3_SingleSurvivorIsReturnedUnmodified ==
    pc = "done" /\ default_response.found /\ Cardinality(Survivors) = 1 =>
        LET only == results[CHOOSE i \in Survivors : TRUE]
        IN  /\ outcome.kind = "result"
            /\ outcome.calls = 1
            /\ outcome.result = extract_version(only.vid, only.response)
            /\ \A k \in DOMAIN outcome.result.formats : outcome.result.formats[k].stamped = {}

\* the scalar fields of a response in which two responses differ
ScalarFields == {"id", "title"}

FieldOf(response, field) == IF field = "id" THEN response.id ELSE response.title

DifferingFields(a, b) == { f \in ScalarFields : FieldOf(a, f) # FieldOf(b, f) }

FormatsOf(vid) ==
    { outcome.result.formats[k] : k \in { j \in DOMAIN outcome.result.formats :
                                            outcome.result.formats[j].version = vid } }

\* C4: when two versions are merged, the formats of the non-primary version
\* carry each scalar field in which it differs from the primary, with the
\* non-primary version's value, and nothing else; the formats of the primary
\* version carry no stamped field.  (Two versions that differ only in F: the
\* non-primary formats carry exactly F.)
C4_DifferencesAreStampedOnNonPrimaryFormats ==
    pc = "done" /\ outcome.kind = "result" /\ Len(results) = 2 =>
        \E p, q \in DOMAIN results :
            /\ p # q
            /\ outcome.result.id = results[p].response.id
            /\ FormatsOf(results[p].vid) # {}
            /\ FormatsOf(results[q].vid) # {}
            /\ \A f \in FormatsOf(results[p].vid) : f.stamped = {}
            /\ \A f \in FormatsOf(results[q].vid) :
                 f.stamped = { [key |-> F, value |-> FieldOf(results[q].response, F)] :
                               F \in DifferingFields(results[p].response, results[q].response) }

\* two found versions that differ only in the field id were merged
C4_Witness ==
    /\ pc = "done" /\ outcome.kind = "result" /\ Len(results) = 2
    /\ DifferingFields(results[1].response, results[2].response) = {"id"}
    /\ \E k \in DOMAIN outcome.result.formats :
         outcome.result.formats[k].stamped = {[key |-> "id", value |-> results[2].vid]}

-----------------------------------------------------------------------------
(* Properties of the selection of the versions *)

\* the lang table is built and the ids are selected
Selected == pc \in {"loop", "done"} /\ lang_table # <<>>

\* the codes a version descriptor of the input stands for
CodesOf(v) ==
    LET raw == { v.data.audio_locales[i] : i \in DOMAIN v.data.audio_locales }
                   \cup ({v.data.audio_locale} \ {None})
    IN  IF raw = {} THEN {None}
        ELSE { IF c = "ja-JP" THEN "ja-jp" ELSE IF c = "en-US" THEN "en-us" ELSE "en-gb" : c \in raw }

\* the rows of the version table, as <<position, id, code>>: the versions of
\* the input in their order, then the Default row of the requested id
VersionRows ==
    UNION { { <<i, versions[i].guid, c>> : c \in CodesOf(versions[i]) } :
            i \in { j \in DOMAIN versions : versions[j].guid # None } }
        \cup { <<Len(versions) + 1, internal_id, DEFAULT_LANG>> }

HasAllToken ==
    \E g \in DOMAIN requested_langs : \E m \in DOMAIN requested_langs[g] :
        requested_langs[g][m] \in {"*", "all"}

NoDuplicates(s) == \A i, j \in DOMAIN s : s[i] = s[j] => i = j

\* C7: the selector '~' alone, and equally an absent expression, selects
\* exactly the Default row: the id list is [internal_id], and the responses
\* returned are the default response alone, with no sibling version fetched.
C7_DefaultAloneSelectsRequestedId ==
    Selected /\ requested_langs \in {<<>>, << <<"~">> >>} =>
        /\ requested_ids = <<internal_id>>
        /\ Returned => /\ results = << [vid |-> internal_id, response |-> default_response] >>
                       /\ fetch_log = <<internal_id>>

\* '~' was resolved against a table with a sibling version
C7_Witness ==
    /\ pc = "done" /\ requested_langs = << <<"~">> >>
    /\ \E i \in DOMAIN versions : versions[i].guid \notin {None, internal_id}
    /\ outcome.kind = "result" /\ outcome.result.id = internal_id

\* C8: when some matcher of some group is '*' or 'all', every row of the table
\* is selected, the Default row included: the id list holds every version id
\* of the table, each once.
C8_AllSelectsEveryRow ==
    Selected /\ HasAllToken =>
        /\ Range(requested_ids) = { r[2] : r \in VersionRows }
        /\ internal_id \in Range(requested_ids)
        /\ NoDuplicates(requested_ids)

\* 'all' in a later group, a table of two sibling versions, one without language
C8_Witness ==
    /\ Selected /\ requested_langs = << <<"ja-jp">>, <<"all">> >>
    /\ \E i \in DOMAIN versions : versions[i].guid = "v1" /\ CodesOf(versions[i]) = {None}
    /\ requested_ids = <<"v1", "v2", "v0">>

\* the rows a token matches
TokenRows(tok) ==
    { r \in VersionRows : matcher_matches(get_standard_mapper(tok), r[3]) }

\* the rows a priority group contributes: those of its first token that
\* matches a row
GroupRows(group) ==
    IF TokenRows(group[1]) # {} \/ Len(group) = 1 THEN TokenRows(group[1])
    ELSE TokenRows(group[2])

\* C9: for a group 'A > B', when A matches a code of the table the ids
\* selected are those of all the rows A matches and B contributes nothing;
\* the rows of B are used only when A matches no code.
C9_PriorityGroupTakesFirstMatch ==
    Selected /\ ~HasAllToken /\ Len(requested_langs) = 1 /\ Len(requested_langs[1]) = 2 =>
        LET A == requested_langs[1][1]
            B == requested_langs[1][2]
        IN  /\ TokenRows(A) # {} => Range(requested_ids) = { r[2] : r \in TokenRows(A) }
            /\ TokenRows(A) = {} => Range(requested_ids) = { r[2] : r \in TokenRows(B) }

\* '$en.* > ~' on a table with en-us and en-gb rows of two sibling versions:
\* both are selected, the Default row is not
C9_Witness ==
    /\ Selected /\ requested_langs = << <<"$en.*", "~">> >>
    /\ Len(versions) = 2
    /\ versions[1].guid = "v1" /\ "en-gb" \in CodesOf(versions[1])
    /\ versions[2].guid = "v2" /\ CodesOf(versions[2]) = {"en-us"}
    /\ requested_ids = <<"v1", "v2">>

\* first position of an id among the rows
FirstPos(rows, vid) ==
    CHOOSE i \in { r[1] : r \in rows } :
        /\ \E r \in rows : r[1] = i /\ r[2] = vid
        /\ \A r \in rows : r[2] = vid => i <= r[1]

OrderedAsRows(ids, rows) ==
    \A i, j \in DOMAIN requested_ids :
        /\ requested_ids[i] \in ids /\ requested_ids[j] \in ids
        /\ FirstPos(rows, requested_ids[i]) < FirstPos(rows, requested_ids[j])
        => i < j

\* C10: for a selector 'A, B' the id list is the union of the ids matched by
\* group A and by group B, the ids of A before the others, each id once, at
\* the position of its first matching row.
C10_GroupsAreUnitedInOrder ==
    Selected /\ ~HasAllToken /\ Len(requested_langs) = 2 =>
        LET rowsA == GroupRows(requested_langs[1])
            rowsB == GroupRows(requested_langs[2])
            idsA  == { r[2] : r \in rowsA }
            idsB  == { r[2] : r \in rowsB }
        IN  /\ Range(requested_ids) = idsA \cup idsB
            /\ NoDuplicates(requested_ids)
            /\ \A i, j \in DOMAIN requested_ids :
                 requested_ids[i] \in idsA /\ requested_ids[j] \notin idsA => i < j
            /\ OrderedAsRows(idsA, rowsA)
            /\ OrderedAsRows(idsB \ idsA, rowsB)

\* '$en.*, ja-jp': one id carries two matching rows of group A, and the
\* requested id is matched by group B through its own language row
C10_Witness ==
    /\ Selected /\ requested_langs = << <<"ja-jp">>, <<"$en.*">> >>
    /\ Len(versions) = 2
    /\ versions[1].guid = "v1" /\ CodesOf(versions[1]) = {"en-us", "en-gb"}
    /\ versions[2].guid = "v0" /\ CodesOf(versions[2]) = {"ja-jp"}
    /\ requested_ids = <<"v0", "v1">>

-----------------------------------------------------------------------------
(* Properties of _extract_formats *)

RequestedTypes == IF format_arg = <<>> THEN {"adaptive_hls"} ELSE Range(format_arg)

\* the hardsub languages asked for; 'none', the default, is the untagged one
RequestedHardsubs ==
    IF hardsub_arg = <<>> THEN {""}
    ELSE { IF hardsub_arg[i] = "none" THEN "" ELSE hardsub_arg[i] : i \in DOMAIN hardsub_arg }

\* stream i is of a requested type and has a url
Wanted(i) ==
    /\ stream_response[i].stream_type \in RequestedTypes
    /\ stream_response[i].url # ""

LangOf(i) ==
    IF stream_response[i].hardsub_locale = None THEN "" ELSE stream_response[i].hardsub_locale

FoldedLangOf(i) ==
    IF LangOf(i) = "en-US" THEN "en-us" ELSE IF LangOf(i) = "de-DE" THEN "de-de" ELSE LangOf(i)

\* stream i is the one kept for its hardsub language: the last wanted one
Kept(i) ==
    /\ Wanted(i)
    /\ \A j \in DOMAIN stream_response : j > i /\ Wanted(j) => LangOf(j) # LangOf(i)

Fetched(i) == \E k \in DOMAIN manifest_fetches : manifest_fetches[k].source = i

FormatsFrom(i) == { k \in DOMAIN formats : formats[k].source = i }

UntaggedHlsPresent ==
    \E i \in DOMAIN stream_response :
        Wanted(i) /\ LangOf(i) = "" /\ stream_response[i].stream_type = "adaptive_hls"

\* C5: with the default hardsub language 'none' requested (alone or with
\* further languages, 'all' not among them) and an untagged HLS stream in the
\* response, the HLS stream of each hardsub language that is not requested
\* gives exactly one format, made from its url without a playlist download,
\* and the HLS stream of the untagged and of each requested language has its
\* playlist resolved.
C5_UnrequestedHardsubsAreCoarse ==
    fpc = "done" /\ "" \in RequestedHardsubs /\ "all" \notin RequestedHardsubs
                 /\ UntaggedHlsPresent =>
        \A i \in DOMAIN stream_response :
            Kept(i) /\ stream_response[i].stream_type = "adaptive_hls" =>
                IF FoldedLangOf(i) \in RequestedHardsubs
                THEN /\ Fetched(i)
                     /\ \A k \in FormatsFrom(i) : ~formats[k].coarse
                ELSE /\ ~Fetched(i)
                     /\ Cardinality(FormatsFrom(i)) = 1
                     /\ \A k \in FormatsFrom(i) : formats[k].coarse

\* default hardsub, untagged and en-US HLS streams: the untagged playlist is
\* resolved into its renditions, en-US gives the one coarse format
C5_Witness ==
    /\ fpc = "done" /\ hardsub_arg = <<>> /\ format_arg = <<>>
    /\ Len(stream_response) = 2
    /\ Wanted(1) /\ LangOf(1) = ""
    /\ Wanted(2) /\ LangOf(2) = "en-US"
    /\ Fetched(1) /\ Cardinality(FormatsFrom(1)) = RenditionsPerManifest
    /\ ~Fetched(2) /\ \E k \in FormatsFrom(2) : formats[k].coarse

\* C6: with hardsub=all no format is the coarse one, and the stream kept for
\* each available hardsub language, the untagged one included, has its
\* manifest resolved (HLS playlist or DASH manifest).
C6_AllHardsubsAreExpanded ==
    fpc = "done" /\ "all" \in RequestedHardsubs =>
        /\ \A k \in DOMAIN formats : ~formats[k].coarse
        /\ \A i \in DOMAIN stream_response :
             Kept(i) /\ stream_response[i].stream_type \in {"adaptive_hls", "adaptive_dash"}
                 => Fetched(i)

\* hardsub=all, untagged and de-DE HLS streams: both playlists are resolved
C6_Witness ==
    /\ fpc = "done" /\ hardsub_arg = <<"all">> /\ format_arg = <<>>
    /\ Len(stream_response) = 2
    /\ Wanted(1) /\ LangOf(1) = ""
    /\ Wanted(2) /\ LangOf(2) = "de-DE"
    /\ Fetched(1) /\ Fetched(2)
    /\ Cardinality(FormatsFrom(2)) = RenditionsPerManifest

-----------------------------------------------------------------------------
(* Order of the version fetches *)

\* position of the first occurrence of x in the sequence s, 0 when absent
IndexOf(s, x) ==
    IF x \in Range(s) THEN CHOOSE k \in DOMAIN s : s[k] = x /\ \A j \in 1..(k - 1) : s[j] # x
    ELSE 0

\* the elements of s other than x, in the order of s
Without(s, x) ==
    LET keep == { k \in DOMAIN s : s[k] # x }
        nth[n \in 0..Len(s)] ==
            IF n = 0 THEN 0 ELSE CHOOSE k \in keep : k > nth[n - 1] /\
                                     \A j \in keep : j > nth[n - 1] => k <= j
    IN  [n \in 1..Cardinality(keep) |-> s[nth[n]]]

\* C13 as stated: the fetches follow the order of the selected id list (for
\* selected ids i before j the fetch of i comes before the fetch of j) and no
\* id outside the selected list is fetched.
C13_FetchesFollowSelectedList ==
    Returned /\ Selected =>
        /\ \A k \in DOMAIN fetch_log : fetch_log[k] \in Range(requested_ids)
        /\ \A a, b \in DOMAIN requested_ids :
             a < b /\ requested_ids[a] \in Range(fetch_log)
                   /\ requested_ids[b] \in Range(fetch_log)
                 => IndexOf(fetch_log, requested_ids[a]) < IndexOf(fetch_log, requested_ids[b])

\* C13: the requested id is fetched once, first, before the selection and
\* whether or not it is selected; after it the loop fetches the selected ids
\* other than the requested id one after another in the order of the id list,
\* and nothing else is fetched.
C13_LoopFetchesFollowSelectedList ==
    Selected =>
        fetch_log = <<internal_id>> \o
                    Without(SubSeq(requested_ids, 1, idx - 1), internal_id)

\* 'en.* , ja-jp' style selection of two other versions: the requested id v0
\* is fetched first although it is not selected, then v1 and v2 in list order
C13_Witness ==
    /\ Returned
    /\ internal_id \notin Range(requested_ids)
    /\ Len(requested_ids) = 2
    /\ fetch_log = <<internal_id>> \o requested_ids

-----------------------------------------------------------------------------
(* Primary version of the merge *)

\* the ids of the surviving versions, in the order of the responses mapping,
\* the primary one first
MergeOrder(primary) ==
    LET others == Without([i \in DOMAIN results |-> results[i].vid], primary)
        alive  == { k \in DOMAIN others : dict_get(results, others[k]).found }
        nth[n \in 0..Len(others)] ==
            IF n = 0 THEN 0 ELSE CHOOSE k \in alive : k > nth[n - 1] /\
                                     \A j \in alive : j > nth[n - 1] => k <= j
    IN  <<primary>> \o [n \in 1..Cardinality(alive) |-> others[nth[n]]]

\* the version each format of the merged result comes from, one per version
FormatVersions ==
    LET fs == outcome.result.formats
    IN  [n \in 1..(Len(fs) \div FormatsPerVersion) |-> fs[(n - 1) * FormatsPerVersion + 1].version]

\* C16: when more than one version survived the fetches, the merge returns a
\* result whose id and title are those of the requested id whenever that id is
\* among the survivors, and of another survivor only when it is not; the
\* formats are the primary version's followed by the other survivors' in the
\* order of the responses.
C16_PrimaryIsRequestedIdElseSurvivor ==
    pc = "done" /\ Cardinality(Survivors) > 1 =>
        /\ outcome.kind = "result"
        /\ outcome.result.id \in { results[i].vid : i \in Survivors }
        /\ dict_get(results, internal_id).found => outcome.result.id = internal_id
        /\ outcome.result.title = dict_get(results, outcome.result.id).title
        /\ Len(outcome.result.formats) = FormatsPerVersion * Cardinality(Survivors)
        /\ FormatVersions = MergeOrder(outcome.result.id)

-----------------------------------------------------------------------------
(* Keys of the kept stream descriptors *)

\* stream i is the last wanted one of its (case-folded hardsub language,
\* stream type) pair
LastOfPair(i) ==
    /\ Wanted(i)
    /\ \A j \in DOMAIN stream_response :
         j > i /\ Wanted(j) =>
             \/ FoldedLangOf(j) # FoldedLangOf(i)
             \/ stream_response[j].stream_type # stream_response[i].stream_type

\* C14: the descriptors are kept per (case-folded hardsub language, stream
\* type): the last wanted descriptor of each pair is in available_formats, and
\* at the end each kept HLS or DASH descriptor has contributed (its manifest
\* was resolved or its coarse format was added).
C14_KeyedByLanguageAndType ==
    fpc \in {"loop", "done"} =>
        \A i \in DOMAIN stream_response :
            LastOfPair(i) =>
                /\ \E k \in DOMAIN available_formats : available_formats[k].source = i
                /\ fpc = "done" /\ stream_response[i].stream_type \in {"adaptive_hls", "adaptive_dash"}
                       => Fetched(i) \/ FormatsFrom(i) # {}

-----------------------------------------------------------------------------
(* Quality rank of the formats *)

\* the requested hardsub languages in the order of the request
RequestedList ==
    IF hardsub_arg = <<>> THEN <<"">>
    ELSE [i \in DOMAIN hardsub_arg |-> IF hardsub_arg[i] = "none" THEN "" ELSE hardsub_arg[i]]

\* the hardsub language of format k, case-folded ("" is the untagged one)
FormatLang(k) == FoldedLangOf(formats[k].source)

\* C15 as stated: the rank is the position in the reversed request, an earlier
\* requested language ranks strictly higher, and the formats of the untagged
\* and of the unrequested languages rank lowest, strictly below the formats of
\* every requested language.
C15_UntaggedAndUnrequestedRankLowest ==
    fpc \in {"loop", "done"} =>
        \A k1, k2 \in DOMAIN formats :
            /\ FormatLang(k1) \in RequestedHardsubs /\ FormatLang(k2) \in RequestedHardsubs
               /\ IndexOf(RequestedList, FormatLang(k1)) < IndexOf(RequestedList, FormatLang(k2))
                   => formats[k1].quality > formats[k2].quality
            /\ FormatLang(k1) = "" \/ FormatLang(k1) \notin RequestedHardsubs
                   => /\ formats[k1].quality <= formats[k2].quality
                      /\ FormatLang(k2) \in RequestedHardsubs \ {""}
                             => formats[k1].quality < formats[k2].quality

\* C15: every format has the rank of its lower-cased hardsub language in the
\* reversed request, where the untagged language counts as requested when
\* 'none' is in the request (as it is by default): the n-th of m requested
\* languages has rank m - n, so an earlier requested one ranks strictly
\* higher, and a format of a language that is not requested has rank -1,
\* strictly below every requested one.
C15_QualityIsReversedRequestPosition ==
    fpc \in {"loop", "done"} =>
        /\ \A k \in DOMAIN formats :
             formats[k].quality =
                 IF FormatLang(k) \in RequestedHardsubs
                 THEN Len(RequestedList) - IndexOf(RequestedList, FormatLang(k))
                 ELSE 0 - 1
        /\ \A k1, k2 \in DOMAIN formats :
             /\ FormatLang(k1) \in RequestedHardsubs /\ FormatLang(k2) \in RequestedHardsubs
                /\ IndexOf(RequestedList, FormatLang(k1)) < IndexOf(RequestedList, FormatLang(k2))
                    => formats[k1].quality > formats[k2].quality
             /\ FormatLang(k1) \notin RequestedHardsubs /\ FormatLang(k2) \in RequestedHardsubs
                    => formats[k1].quality < formats[k2].quality

\* hardsub=de-de,none with a de-DE and an untagged stream: the de-DE formats
\* have rank 1, the untagged ones rank 0
C15_Witness ==
    /\ fpc = "done" /\ hardsub_arg = <<"de-de", "none">>
    /\ \E k1, k2 \in DOMAIN formats :
         /\ FormatLang(k1) = "de-de" /\ formats[k1].quality = 1
         /\ FormatLang(k2) = "" /\ formats[k2].quality = 0

-----------------------------------------------------------------------------
(* Streams of an unknown type *)

Recognized(stream) == stream.stream_type \in {"adaptive_hls", "adaptive_dash"}

\* what is done with each kept descriptor of a recognized type: its manifest
\* is resolved (full) or the one coarse format is made
ActualPlan ==
    { [format_id |-> available_formats[k].format_id,
       full |-> Fetched(available_formats[k].source)] :
        k \in { j \in DOMAIN available_formats :
                  available_formats[j].stream_type \in {"adaptive_hls", "adaptive_dash"} } }

\* the same for the response without its streams of an unknown type
PlanWithoutUnknown ==
    LET streams   == SelectSeq(stream_response, Recognized)
        available == collect_available_formats(streams, requested_formats(format_arg))
        full      == compute_full_format_langs(available, requested_hardsubs(hardsub_arg))
    IN  { [format_id |-> available[k].format_id,
           full |-> \/ available[k].stream_type = "adaptive_dash"
                    \/ lower(available[k].hardsub_lang) \in full] : k \in DOMAIN available }

\* C17 as stated: a stream of an unknown type gives a warning and no format,
\* and the streams of the recognized types are processed exactly as they are
\* for the response without the streams of the unknown type.
C17_UnknownTypeIsAsIfAbsent ==
    fpc = "done" =>
        /\ \A k \in DOMAIN available_formats :
             ~Recognized(available_formats[k]) =>
                 /\ available_formats[k].stream_type \in warnings
                 /\ FormatsFrom(available_formats[k].source) = {}
        /\ ActualPlan = PlanWithoutUnknown

\* What does hold of a kept stream of an unknown type: it gives a warning, no
\* manifest download and no format, and the loop goes on, so that every kept
\* stream of a recognized type is processed according to full_format_langs.
UnknownTypeIsSkipped ==
    fpc = "done" =>
        /\ \A t \in warnings : \E k \in DOMAIN available_formats :
                                  available_formats[k].stream_type = t
        /\ \A k \in DOMAIN available_formats :
             LET entry == available_formats[k]
             IN  IF ~Recognized(entry)
                 THEN /\ entry.stream_type \in warnings
                      /\ ~Fetched(entry.source)
                      /\ FormatsFrom(entry.source) = {}
                 ELSE IF \/ entry.stream_type = "adaptive_dash"
                         \/ lower(entry.hardsub_lang) \in full_format_langs
                      THEN Fetched(entry.source)
                      ELSE /\ ~Fetched(entry.source)
                           /\ \E f \in FormatsFrom(entry.source) : formats[f].coarse

-----------------------------------------------------------------------------
(* Episodes emitted for a series *)

\* the episodes of the series, by <<season, episode>> place
AllEpisodes == UNION { { <<s, e>> : e \in DOMAIN series[s] } : s \in DOMAIN series }

\* season -> episode order
Before(p, q) == p[1] < q[1] \/ (p[1] = q[1] /\ p[2] < q[2])

\* the codes of an episode, the unknown language when it has none
EpisodeCodes(p) == CodesOf([data |-> series[p[1]][p[2]]])

\* the codes the selector matches among those of all episodes and Default
SeriesMatchSet ==
    get_list_matches(LangSelector(show_langs),
                     UNION { EpisodeCodes(p) : p \in AllEpisodes } \cup {DEFAULT_LANG})

EmittedAt(p) == { k \in DOMAIN entries : entries[k].eid = p }

\* C19: the entries come in season -> episode order, each episode at most
\* once. When Default is in the series-wide match set every entry has the
\* target '~' and, once the playlist is exhausted, every episode was emitted;
\* otherwise every entry carries exactly the codes of its episode that are in
\* the match set, and once the playlist is exhausted the episodes emitted are
\* exactly those with such a code.
C19_EpisodesFollowSeriesMatchSet ==
    spc \in {"playlist", "exhausted"} =>
        /\ \A k1, k2 \in DOMAIN entries : k1 < k2 => Before(entries[k1].eid, entries[k2].eid)
        /\ \A k \in DOMAIN entries : entries[k].eid \in AllEpisodes
        /\ IF DEFAULT_LANG \in SeriesMatchSet
           THEN /\ \A k \in DOMAIN entries : entries[k].target_audio_langs = {"~"}
                /\ spc = "exhausted" => \A p \in AllEpisodes : Cardinality(EmittedAt(p)) = 1
           ELSE /\ \A k \in DOMAIN entries :
                     /\ entries[k].target_audio_langs = EpisodeCodes(entries[k].eid) \cap SeriesMatchSet
                     /\ entries[k].target_audio_langs # {}
                /\ spc = "exhausted" =>
                     \A p \in AllEpisodes :
                         EmittedAt(p) # {} <=> EpisodeCodes(p) \cap SeriesMatchSet # {}

\* 'ja-jp > ~' on a series with a ja-JP and an en-US episode: ja-jp is matched
\* series-wide, so the fallback is not used and the en-US episode is skipped
C19_Witness ==
    /\ spc = "exhausted"
    /\ show_langs = << <<"ja-jp", "~">> >>
    /\ DEFAULT_LANG \notin SeriesMatchSet
    /\ Len(entries) = 1
    /\ entries[1].target_audio_langs = {"ja-jp"}
    /\ \E p \in AllEpisodes : EpisodeCodes(p) = {"en-us"} /\ EmittedAt(p) = {}

-----------------------------------------------------------------------------
(* Laziness of the playlists *)

\* C11: no request is made ahead of the consumer: the seasons are requested
\* only once the consumer has asked for an element, and the episode list of a
\* season only when the consumer has asked for more elements than the earlier
\* seasons gave.
C11_NoRequestAheadOfConsumer ==
    \A k \in DOMAIN requests :
        /\ requests[k].kind = "seasons" => pulls >= 1
        /\ requests[k].kind = "episodes" =>
               pulls > Cardinality({ j \in DOMAIN entries : entries[j].eid[1] < requests[k].season })

-----------------------------------------------------------------------------
(* The shared credentials *)

\* C12: when both callers have left _update_auth, at most two token requests
\* were made, both callers returned normally, and _AUTH_HEADERS holds a token
\* whose expiry in _AUTH_REFRESH was computed for that same token.
C12_RaceCostsOneRedundantRefresh ==
    (\A c \in Callers : cpc[c] \in {"auth_done", "raised"}) =>
        /\ Cardinality({ c \in Callers : auth_response[c].token # NoToken }) <= 2
        /\ \A c \in Callers : cpc[c] = "auth_done" /\ error[c] = ""
        /\ AUTH_HEADERS # NoToken
        /\ AUTH_REFRESH.defined
        /\ AUTH_REFRESH.token = AUTH_HEADERS

\* C18: the assertion of _update_auth never fails: no call ends with an
\* AssertionError, and whenever _update_query is about to return early because
\* the language has a key in _QUERY, _BASIC_AUTH is set.
C18_BasicAuthAssertionHolds ==
    \A c \in Callers :
        /\ error[c] # "AssertionError"
        /\ cpc[c] = "update_query" /\ clang[c] \in QUERY => BASIC_AUTH

====
